---- MODULE Spec2Model ----
(***************************************************************************)
(* DisasterPaws backend (src/src/index.ts): the incident lifecycle state   *)
(* machine, its approval-event log and the triage scorer.                  *)
(*                                                                         *)
(* Every Fastify handler of index.ts is an async function without an       *)
(* await in its body, so on Node's single-threaded event loop it runs to   *)
(* completion before another handler starts: a handler is one action.      *)
(* Concurrency between clients shows as the order in which the handlers    *)
(* of their requests are run, which Next leaves free.                      *)
(***************************************************************************)
EXTENDS Integers, Sequences, FiniteSets, TLC

VARIABLES incidents, approvalEvents, clock, response

vars == <<incidents, approvalEvents, clock, response>>

(***************************************************************************)
(* Bounds of the model.                                                    *)
(***************************************************************************)
MaxIncidents == 2
MaxEvents == 4
MaxWords == 3

(***************************************************************************)
(* Types of index.ts.                                                      *)
(***************************************************************************)
\* An optional field that is absent (finalPriority?, reviewReason?, ...).
Undefined == "undefined"

IncidentStatus == {"draft", "needs_human_review", "approved", "rejected", "executed"}

ApprovalDecision == {"approve", "reject"}

Priority == {"P1", "P2", "P3"}

UrgencyHint == {"low", "medium", "high"}

\* randomUUID(): identifiers are opaque and never compared but for equality;
\* they are numbered in the order the incidents are created.
Ids == 1..MaxIncidents

\* Request inputs, after the zod schemas have accepted them.  A report is
\* its words; actor and reason are opaque strings, sent in pairs.
Reports == {<<"dog", "stuck", "flood">>, <<"cat", "on", "porch">>}
Location == "riverside"
Callers == {[actor |-> "vet", reason |-> "looks right"],
            [actor |-> "lead", reason |-> "duplicate"]}
\* The finalPriority of a review: one that differs from the priorities the
\* scorer suggests for CreateBodies, or none.
FinalPriorityInputs == {"P2", Undefined}
CreateBodies == {[report |-> <<"dog", "stuck", "flood">>, urgencyHint |-> "high",
                  actor |-> "system"],
                 [report |-> <<"cat", "on", "porch">>, urgencyHint |-> Undefined,
                  actor |-> "vet"]}

\* Bug: execute is open to an incident still waiting for its review.
transitionsSkipApproval ==
    [s \in IncidentStatus |->
        CASE s = "draft" -> {"needs_human_review"}
          [] s = "needs_human_review" -> {"approved", "rejected", "executed"}
          [] s = "approved" -> {"executed"}
          [] s = "rejected" -> {"needs_human_review"}
          [] s = "executed" -> {}]

\* Bug: an executed incident can be reopened.
transitionsReopenExecuted ==
    [s \in IncidentStatus |->
        CASE s = "draft" -> {"needs_human_review"}
          [] s = "needs_human_review" -> {"approved", "rejected"}
          [] s = "approved" -> {"executed"}
          [] s = "rejected" -> {"needs_human_review"}
          [] s = "executed" -> {"needs_human_review"}]

\* Bug: an approved incident can still be rejected by a later review.
transitionsReviewApproved ==
    [s \in IncidentStatus |->
        CASE s = "draft" -> {"needs_human_review"}
          [] s = "needs_human_review" -> {"approved", "rejected"}
          [] s = "approved" -> {"executed", "rejected"}
          [] s = "rejected" -> {"needs_human_review"}
          [] s = "executed" -> {}]

\* Bug: an approved incident can be sent back to review.
transitionsReopenApproved ==
    [s \in IncidentStatus |->
        CASE s = "draft" -> {"needs_human_review"}
          [] s = "needs_human_review" -> {"approved", "rejected"}
          [] s = "approved" -> {"executed", "needs_human_review"}
          [] s = "rejected" -> {"needs_human_review"}
          [] s = "executed" -> {}]

\* Bug: a rejected incident can be executed.
transitionsExecuteRejected ==
    [s \in IncidentStatus |->
        CASE s = "draft" -> {"needs_human_review"}
          [] s = "needs_human_review" -> {"approved", "rejected"}
          [] s = "approved" -> {"executed"}
          [] s = "rejected" -> {"needs_human_review", "executed"}
          [] s = "executed" -> {}]

\* Table of legal edges.
transitions ==
    [s \in IncidentStatus |->
        CASE s = "draft" -> {"needs_human_review"}
          [] s = "needs_human_review" -> {"approved", "rejected"}
          [] s = "approved" -> {"executed"}
          [] s = "rejected" -> {"needs_human_review"}
          [] s = "executed" -> {}]

\* Bug: a transition to the status the incident already has is let through.
canTransitionOrSame(from, to) == to \in transitions[from] \/ to = from

\* Bug: only the target is validated, against no particular current status.
canTransitionTargetOnly(from, to) == \E s \in IncidentStatus : to \in transitions[s]

canTransition(from, to) == to \in transitions[from]

(***************************************************************************)
(* The triage scorer.  Scores are in hundredths: every sum the function    *)
(* can form (0.3, 0.5, 0.55, 0.7, 0.75, 0.95) compares with 0.75 and 0.55  *)
(* in IEEE doubles as it does exactly, and toFixed(2) leaves it as it is.  *)
(***************************************************************************)
Keywords == {"injur", "bleed", "stuck", "flood", "fire", "heat", "cold"}

keywordMatch(report) == \E i \in DOMAIN report : report[i] \in Keywords

Min(a, b) == IF a < b THEN a ELSE b
Max(a, b) == IF a > b THEN a ELSE b

triageScore(report, urgencyHint) ==
    LET s0 == 50
        s1 == IF keywordMatch(report) THEN s0 + 25 ELSE s0
        s2 == IF urgencyHint = "high" THEN s1 + 20 ELSE s1
        s3 == IF urgencyHint = "low" THEN s2 - 20 ELSE s2
    IN  Max(0, Min(100, s3))

\* Bug: the thresholds are inclusive, so 0.75 is P1 and 0.55 is P2.
triageInclusive(report, urgencyHint) ==
    LET score == triageScore(report, urgencyHint)
    IN  [suggestedPriority |->
             IF score >= 75 THEN "P1" ELSE IF score >= 55 THEN "P2" ELSE "P3",
         confidence |-> score]

triage(report, urgencyHint) ==
    LET score == triageScore(report, urgencyHint)
    IN  [suggestedPriority |->
             IF score > 75 THEN "P1" ELSE IF score > 55 THEN "P2" ELSE "P3",
         confidence |-> score]

(***************************************************************************)
(* transitionIncident: the edge check, and on a legal edge the incident    *)
(* with its new status and updatedAt and the event that is appended.       *)
(***************************************************************************)
transitioned(incident, to, now) ==
    [incident EXCEPT !.status = to, !.updatedAt = now]

\* Bug: the event is built after the status write, so its from is the new status.
newEventAfterWrite(incident, to, actor, reason, now) ==
    [id |-> Len(approvalEvents) + 1,
     incidentId |-> incident.id,
     from |-> to,
     to |-> to,
     actor |-> actor,
     reason |-> reason,
     createdAt |-> now]

newEvent(incident, to, actor, reason, now) ==
    [id |-> Len(approvalEvents) + 1,
     incidentId |-> incident.id,
     from |-> incident.status,
     to |-> to,
     actor |-> actor,
     reason |-> reason,
     createdAt |-> now]

\* A reply, with the route and the :id of the request it answers: its status
\* code, the error of a 404 or 409 (the Error thrown on an illegal edge is
\* caught into a 409), and the body where it is not a view of the registry.
NoError == <<>>
invalidTransition(from, to) == <<"Invalid transition", from, to>>
incidentNotFound == <<"Incident not found">>
NoId == 0

reply(route, id, code, error, body) ==
    [route |-> route, id |-> id, code |-> code, error |-> error, body |-> body]

\* Bug: updatedAt is refreshed before the edge is checked.
transitionIncidentTouch(route, incident, to, actor, reason, okCode, errCode) ==
    IF canTransition(incident.status, to)
    THEN /\ incidents' = (incident.id :> transitioned(incident, to, clock)) @@ incidents
         /\ approvalEvents' = Append(approvalEvents, newEvent(incident, to, actor, reason, clock))
         /\ clock' = clock + 1
         /\ response' = reply(route, incident.id, okCode, NoError, <<>>)
    ELSE /\ incidents' = (incident.id :> [incident EXCEPT !.updatedAt = clock]) @@ incidents
         /\ approvalEvents' = approvalEvents
         /\ clock' = clock
         /\ response' = reply(route, incident.id, errCode,
                               invalidTransition(incident.status, to), <<>>)

\* Bug: the event is put at the head of the log (unshift for push).
transitionIncidentUnshift(route, incident, to, actor, reason, okCode, errCode) ==
    IF canTransition(incident.status, to)
    THEN /\ incidents' = (incident.id :> transitioned(incident, to, clock)) @@ incidents
         /\ approvalEvents' = <<newEvent(incident, to, actor, reason, clock)>> \o approvalEvents
         /\ clock' = clock + 1
         /\ response' = reply(route, incident.id, okCode, NoError, <<>>)
    ELSE /\ incidents' = (incident.id :> incident) @@ incidents
         /\ approvalEvents' = approvalEvents
         /\ clock' = clock
         /\ response' = reply(route, incident.id, errCode,
                               invalidTransition(incident.status, to), <<>>)

\* transitionIncident(incident, to, actor, reason), called by the handler of
\* route, which replies okCode with {incident, event} on success and errCode
\* when the Error is thrown.  The incident is the object stored in the
\* registry under its id, so what the handler wrote to it before the call
\* stays written.  new Date() is read on a legal edge only; the clock is
\* logical and moves on with every request that reads it.
transitionIncident(route, incident, to, actor, reason, okCode, errCode) ==
    IF canTransition(incident.status, to)
    THEN /\ incidents' = (incident.id :> transitioned(incident, to, clock)) @@ incidents
         /\ approvalEvents' = Append(approvalEvents, newEvent(incident, to, actor, reason, clock))
         /\ clock' = clock + 1
         /\ response' = reply(route, incident.id, okCode, NoError, <<>>)
    ELSE /\ incidents' = (incident.id :> incident) @@ incidents
         /\ approvalEvents' = approvalEvents
         /\ clock' = clock
         /\ response' = reply(route, incident.id, errCode,
                               invalidTransition(incident.status, to), <<>>)

\* Bug: the refused request is recorded in the log.
notFoundLogged(route, id) ==
    /\ response' = reply(route, id, 404, incidentNotFound, <<>>)
    /\ approvalEvents' = Append(approvalEvents,
                                [id |-> Len(approvalEvents) + 1,
                                 incidentId |-> id,
                                 from |-> "draft",
                                 to |-> "draft",
                                 actor |-> route,
                                 reason |-> Undefined,
                                 createdAt |-> clock])
    /\ UNCHANGED <<incidents, clock>>

\* if (!incident) return reply.code(404).send({ error: 'Incident not found' })
notFound(route, id) ==
    /\ response' = reply(route, id, 404, incidentNotFound, <<>>)
    /\ UNCHANGED <<incidents, approvalEvents, clock>>

(***************************************************************************)
(* Initial state: empty registry and log (index.ts 46-47).                 *)
(***************************************************************************)
Init ==
    /\ incidents = <<>>
    /\ approvalEvents = <<>>
    /\ clock = 0
    /\ response = reply("", NoId, 0, NoError, <<>>)

\* POST /triage/score.  The reply is kept with the report and the
\* urgencyHint of the request it answers.
TriageScore(report, urgencyHint) ==
    /\ LET t == triage(report, urgencyHint)
       IN  response' = reply("score", NoId, 200, NoError,
                             [report |-> report,
                              urgencyHint |-> urgencyHint,
                              suggestedPriority |-> t.suggestedPriority,
                              confidence |-> t.confidence,
                              requiresHumanApproval |-> TRUE])
    /\ UNCHANGED <<incidents, approvalEvents, clock>>

\* Bug: the incident is stored and returned without being routed to review.
CreateIncidentUnrouted(id, report, urgencyHint, actor) ==
    /\ id \notin DOMAIN incidents
    /\ id = Cardinality(DOMAIN incidents) + 1
    /\ Len(approvalEvents) < MaxEvents
    /\ LET t == triage(report, urgencyHint)
       IN  incidents' = (id :> [id |-> id,
                                createdAt |-> clock,
                                updatedAt |-> clock,
                                report |-> report,
                                location |-> Location,
                                suggestedPriority |-> t.suggestedPriority,
                                confidence |-> t.confidence,
                                finalPriority |-> Undefined,
                                status |-> "draft",
                                reviewReason |-> Undefined,
                                reviewedBy |-> Undefined]) @@ incidents
    /\ response' = reply("create", id, 201, NoError, <<>>)
    /\ UNCHANGED <<approvalEvents, clock>>

\* POST /incidents
CreateIncident(id, report, urgencyHint, actor) ==
    /\ id \notin DOMAIN incidents
    /\ id = Cardinality(DOMAIN incidents) + 1
    /\ Len(approvalEvents) < MaxEvents
    /\ LET t == triage(report, urgencyHint)
           incident == [id |-> id,
                        createdAt |-> clock,
                        updatedAt |-> clock,
                        report |-> report,
                        location |-> Location,
                        suggestedPriority |-> t.suggestedPriority,
                        confidence |-> t.confidence,
                        finalPriority |-> Undefined,
                        status |-> "draft",
                        reviewReason |-> Undefined,
                        reviewedBy |-> Undefined]
       IN  transitionIncident("create", incident, "needs_human_review", actor,
                              "Auto-routed for HITL review", 201, 500)

\* GET /incidents.  The reply's body is listIncidents(status).
listIncidents(status) ==
    IF status = Undefined
    THEN DOMAIN incidents
    ELSE {i \in DOMAIN incidents : incidents[i].status = status}

ListIncidents(status) ==
    /\ response' = reply("list", NoId, 200, NoError, <<>>)
    /\ UNCHANGED <<incidents, approvalEvents, clock>>

\* GET /incidents/:id.  The reply's body is getIncident(id).
eventsOf(events, id) == SelectSeq(events, LAMBDA e : e.incidentId = id)

getIncident(id) == [incident |-> incidents[id], events |-> eventsOf(approvalEvents, id)]

GetIncident(id) ==
    IF id \notin DOMAIN incidents
    THEN notFound("get", id)
    ELSE /\ response' = reply("get", id, 200, NoError, <<>>)
         /\ UNCHANGED <<incidents, approvalEvents, clock>>

\* Bug: the caller's finalPriority is ignored.
reviewedSuggestedOnly(incident, decision, actor, reason, finalPriority) ==
    [incident EXCEPT
        !.finalPriority = IF decision = "approve" THEN incident.suggestedPriority ELSE @,
        !.reviewReason = reason,
        !.reviewedBy = actor]

\* Bug: no fallback to suggestedPriority when the caller sends no finalPriority.
reviewedNoDefault(incident, decision, actor, reason, finalPriority) ==
    [incident EXCEPT
        !.finalPriority = IF decision = "approve" THEN finalPriority ELSE @,
        !.reviewReason = reason,
        !.reviewedBy = actor]

\* The fields review writes before it attempts the transition.
reviewed(incident, decision, actor, reason, finalPriority) ==
    [incident EXCEPT
        !.finalPriority = IF decision = "approve"
                          THEN (IF finalPriority = Undefined
                                THEN incident.suggestedPriority
                                ELSE finalPriority)
                          ELSE @,
        !.reviewReason = reason,
        !.reviewedBy = actor]

\* Bug, against the code as it is: the fields are written only once the
\* edge is known to be legal, so a refused review leaves them alone.
ReviewValidatedFirst(id, decision, actor, reason, finalPriority) ==
    /\ Len(approvalEvents) < MaxEvents
    /\ IF id \notin DOMAIN incidents
       THEN notFound("review", id)
       ELSE LET targetStatus == IF decision = "approve" THEN "approved" ELSE "rejected"
            IN  transitionIncident("review",
                    IF canTransition(incidents[id].status, targetStatus)
                    THEN reviewed(incidents[id], decision, actor, reason, finalPriority)
                    ELSE incidents[id],
                    targetStatus, actor, reason, 200, 409)

\* POST /incidents/:id/review
Review(id, decision, actor, reason, finalPriority) ==
    /\ Len(approvalEvents) < MaxEvents
    /\ IF id \notin DOMAIN incidents
       THEN notFound("review", id)
       ELSE LET targetStatus == IF decision = "approve" THEN "approved" ELSE "rejected"
            IN  transitionIncident("review",
                    reviewed(incidents[id], decision, actor, reason, finalPriority),
                    targetStatus, actor, reason, 200, 409)

\* POST /incidents/:id/reopen
Reopen(id, actor, reason) ==
    /\ Len(approvalEvents) < MaxEvents
    /\ IF id \notin DOMAIN incidents
       THEN notFound("reopen", id)
       ELSE transitionIncident("reopen", incidents[id], "needs_human_review", actor, reason,
                               200, 409)

\* POST /incidents/:id/execute
Execute(id, actor) ==
    /\ Len(approvalEvents) < MaxEvents
    /\ IF id \notin DOMAIN incidents
       THEN notFound("execute", id)
       ELSE transitionIncident("execute", incidents[id], "executed", actor,
                               "Dispatch executed", 200, 409)

\* The handlers of the incident registry.  POST /triage/score reads and
\* writes none of its state.
Next ==
    \/ \E id \in Ids, b \in CreateBodies :
          CreateIncident(id, b.report, b.urgencyHint, b.actor)
    \/ \E s \in IncidentStatus \cup {Undefined} : ListIncidents(s)
    \/ \E id \in Ids : GetIncident(id)
    \/ \E id \in Ids, d \in ApprovalDecision, c \in Callers,
          p \in FinalPriorityInputs : Review(id, d, c.actor, c.reason, p)
    \/ \E id \in Ids, c \in Callers : Reopen(id, c.actor, c.reason)
    \/ \E id \in Ids, c \in Callers : Execute(id, c.actor)

Spec == Init /\ [][Next]_vars

(***************************************************************************)
(* The operations on a draft.  POST /incidents stores the incident as a    *)
(* draft (index.ts 132-143) before it routes it; InitDraft is the registry *)
(* holding such an incident, for what review, reopen and execute do when   *)
(* they are handed one.                                                    *)
(***************************************************************************)
InitDraft ==
    /\ \E b \in CreateBodies :
          LET t == triage(b.report, b.urgencyHint)
          IN  incidents = (1 :> [id |-> 1,
                                 createdAt |-> 0,
                                 updatedAt |-> 0,
                                 report |-> b.report,
                                 location |-> Location,
                                 suggestedPriority |-> t.suggestedPriority,
                                 confidence |-> t.confidence,
                                 finalPriority |-> Undefined,
                                 status |-> "draft",
                                 reviewReason |-> Undefined,
                                 reviewedBy |-> Undefined])
    /\ approvalEvents = <<>>
    /\ clock = 0
    /\ response = reply("", NoId, 0, NoError, <<>>)

DraftSpec == InitDraft /\ [][Next]_vars

(***************************************************************************)
(* The scoring endpoint on its own: POST /triage/score reads and writes    *)
(* nothing of the registry, so its requests are explored apart, over the   *)
(* reports of up to MaxWords words of ScoreWords and every urgencyHint.    *)
(***************************************************************************)
ScoreWords == {"dog", "stuck", "cold"}

ScoreReports == UNION {[1..n -> ScoreWords] : n \in 1..MaxWords}

NextScore ==
    \E report \in ScoreReports, urgencyHint \in UrgencyHint \cup {Undefined} :
        TriageScore(report, urgencyHint)

ScoreSpec == Init /\ [][NextScore]_vars

(***************************************************************************)
(* Properties.                                                             *)
(***************************************************************************)
\* The edges of the lifecycle, as the design lists them.
LegalEdges ==
    {<<"draft", "needs_human_review">>,
     <<"needs_human_review", "approved">>,
     <<"needs_human_review", "rejected">>,
     <<"approved", "executed">>,
     <<"rejected", "needs_human_review">>}

History(id) == eventsOf(approvalEvents, id)

LastOf(h) == h[Len(h)]

\* The status of an incident before a step; one not yet constructed is a draft.
StatusBefore(id) == IF id \in DOMAIN incidents THEN incidents[id].status ELSE "draft"

ReviewTarget(decision) == IF decision = "approve" THEN "approved" ELSE "rejected"

\* The step answers a request of the route for a stored incident: every
\* handler writes the reply of its own route.
Answered(route, id) ==
    /\ id \in DOMAIN incidents
    /\ response'.route = route
    /\ response'.id = id

\* C1: every executed incident has in its history an approved -> executed
\* event that comes after a needs_human_review -> approved event.
C1_ExecutedOnlyAfterApproval ==
    \A id \in DOMAIN incidents :
        incidents[id].status = "executed" =>
            \E j \in DOMAIN History(id) :
                /\ History(id)[j].from = "approved"
                /\ History(id)[j].to = "executed"
                /\ \E k \in 1..(j - 1) :
                      /\ History(id)[k].from = "needs_human_review"
                      /\ History(id)[k].to = "approved"

\* An incident is executed while the log also holds events of another one.
C1_Witness ==
    \E id \in DOMAIN incidents :
        /\ incidents[id].status = "executed"
        /\ Len(History(id)) < Len(approvalEvents)

\* The history of an incident replays to its status: it starts with the
\* auto-routing, each event starts where the one before ended, and the last
\* one ends at the current status.
Replays(id) ==
    LET h == History(id)
    IN  /\ Len(h) >= 1
        /\ h[1].from = "draft" /\ h[1].to = "needs_human_review"
        /\ \A k \in 2..Len(h) : h[k].from = h[k - 1].to
        /\ h[Len(h)].to = incidents[id].status

AllReplay == \A id \in DOMAIN incidents : Replays(id)

\* C2: a step that changes the status of an incident appends exactly one
\* event, for that incident, with the (from, to) of the change; a step that
\* changes no status appends none; and every incident's history replays to
\* its current status.
C2_EveryChangeLogged ==
    /\ []AllReplay
    /\ [][/\ \A id \in DOMAIN incidents' :
                StatusBefore(id) # incidents'[id].status =>
                    /\ Len(approvalEvents') = Len(approvalEvents) + 1
                    /\ SubSeq(approvalEvents', 1, Len(approvalEvents)) = approvalEvents
                    /\ LastOf(approvalEvents').incidentId = id
                    /\ LastOf(approvalEvents').from = StatusBefore(id)
                    /\ LastOf(approvalEvents').to = incidents'[id].status
          /\ (\A id \in DOMAIN incidents' : StatusBefore(id) = incidents'[id].status)
                => approvalEvents' = approvalEvents]_vars

\* An incident was rejected and reopened while another one was created.
C2_Witness ==
    \E id \in DOMAIN incidents :
        /\ Len(History(id)) >= 3
        /\ Len(History(id)) < Len(approvalEvents)
        /\ LastOf(History(id)).from = "rejected"
        /\ incidents[id].status = "needs_human_review"

\* C3: every change of status follows one of the five legal edges, and so
\* does every event of the log: no self-loop, no unlisted edge.
C3_OnlyLegalEdges ==
    /\ [](\A k \in DOMAIN approvalEvents :
             <<approvalEvents[k].from, approvalEvents[k].to>> \in LegalEdges)
    /\ [][\A id \in DOMAIN incidents' :
             StatusBefore(id) # incidents'[id].status =>
                 <<StatusBefore(id), incidents'[id].status>> \in LegalEdges]_vars

\* An incident went through rejection, reopening and approval.
C3_Witness ==
    \E id \in DOMAIN incidents :
        /\ Len(History(id)) = 4
        /\ History(id)[2].to = "rejected"
        /\ History(id)[3].to = "needs_human_review"
        /\ History(id)[4].to = "approved"

\* C4: finalPriority is set exactly when the status is approved or executed.
C4_FinalPriorityIffApproved ==
    \A id \in DOMAIN incidents :
        (incidents[id].finalPriority # Undefined)
            <=> (incidents[id].status \in {"approved", "executed"})

\* The targets a step asks for: the step answers a review, reopen or
\* execute of a stored incident, and these are the statuses its request
\* would move the incident to.
RequestedTargets(id) ==
    IF Answered("review", id)
    THEN {ReviewTarget(d) : d \in {dd \in ApprovalDecision :
             \E c \in Callers, p \in FinalPriorityInputs :
                Review(id, dd, c.actor, c.reason, p)}}
    ELSE IF Answered("reopen", id) THEN {"needs_human_review"}
    ELSE IF Answered("execute", id) THEN {"executed"}
    ELSE {}

\* C5: a review, reopen or execute whose edge is not legal is answered with
\* the invalid transition (from, to), and leaves the incident's status and
\* updatedAt as they were and the log without a new event.
C5_IllegalLeavesStatus ==
    [][\A id \in DOMAIN incidents :
          response'.id = id =>
              \A to \in RequestedTargets(id) :
                  <<incidents[id].status, to>> \notin LegalEdges =>
                      /\ response'.code = 409
                      /\ response'.error = <<"Invalid transition", incidents[id].status, to>>
                      /\ incidents'[id].status = incidents[id].status
                      /\ incidents'[id].updatedAt = incidents[id].updatedAt
                      /\ approvalEvents' = approvalEvents]_vars

\* A request has just been refused on an incident whose updatedAt is older
\* than the time of the request.
C5_Witness ==
    /\ response.code = 409
    /\ response.id \in DOMAIN incidents
    /\ response.error[2] = incidents[response.id].status
    /\ incidents[response.id].updatedAt < clock - 1

\* The events of an incident that leave needs_human_review (the reviews
\* that succeeded) and those that enter it from rejected (the reopens).
ReviewsOf(id) ==
    {k \in DOMAIN History(id) : History(id)[k].from = "needs_human_review"}
ReopensOf(id) ==
    {k \in DOMAIN History(id) : History(id)[k].from = "rejected"}

\* C6: of the reviews of an incident that run one after the other in any
\* order, only one that finds it in needs_human_review succeeds, and its
\* event records the status it found; the others are refused and log
\* nothing.  No two events of an incident start from the same stale status:
\* between two reviews that succeeded there is a reopen.
C6_OneReviewWins ==
    /\ [](\A id \in DOMAIN incidents :
             /\ \A k \in 2..Len(History(id)) :
                   ~(/\ History(id)[k].from = "needs_human_review"
                     /\ History(id)[k - 1].from = "needs_human_review")
             /\ Cardinality(ReviewsOf(id)) <= 1 + Cardinality(ReopensOf(id)))
    /\ [][\A id \in DOMAIN incidents :
             Answered("review", id) =>
                 IF incidents[id].status = "needs_human_review"
                 THEN /\ response'.code = 200
                      /\ incidents'[id].status \in {"approved", "rejected"}
                      /\ Len(approvalEvents') = Len(approvalEvents) + 1
                      /\ LastOf(approvalEvents').incidentId = id
                      /\ LastOf(approvalEvents').from = "needs_human_review"
                 ELSE /\ response'.code = 409
                      /\ incidents'[id].status = incidents[id].status
                      /\ approvalEvents' = approvalEvents]_vars

\* A review has just been refused on an incident that another review, the
\* only one of its history, had decided.
C6_Witness ==
    /\ response.route = "review"
    /\ response.code = 409
    /\ response.id \in DOMAIN incidents
    /\ incidents[response.id].status \in {"approved", "rejected"}
    /\ LastOf(History(response.id)).from = "needs_human_review"
    /\ Cardinality(ReviewsOf(response.id)) = 1

\* C7: every incident of the registry is past draft, in every state a
\* request can run in: none is listed under draft, and its history holds
\* exactly one event from draft, the first, to needs_human_review; the step
\* that creates it leaves it in needs_human_review with that one event.
C7_NeverObservedDraft ==
    /\ [](/\ listIncidents("draft") = {}
          /\ \A id \in DOMAIN incidents :
                /\ getIncident(id).incident.status # "draft"
                /\ Len(History(id)) >= 1
                /\ History(id)[1].from = "draft"
                /\ History(id)[1].to = "needs_human_review"
                /\ \A k \in 2..Len(History(id)) : History(id)[k].from # "draft")
    /\ [][\A id \in DOMAIN incidents' \ DOMAIN incidents :
             /\ incidents'[id].status = "needs_human_review"
             /\ Len(eventsOf(approvalEvents', id)) = 1
             /\ response'.code = 201]_vars

\* A second incident has just been created.
C7_Witness ==
    /\ response.route = "create"
    /\ response.code = 201
    /\ Cardinality(DOMAIN incidents) = 2
    /\ incidents[response.id].status = "needs_human_review"
    /\ Len(History(response.id)) = 1
    /\ History(response.id)[1].id = Len(approvalEvents)

\* C8: an executed incident stays executed, and every review, reopen or
\* execute on it is refused and logs nothing.
C8_ExecutedIsTerminal ==
    [][\A id \in DOMAIN incidents :
          incidents[id].status = "executed" =>
              /\ incidents'[id].status = "executed"
              /\ (Answered("review", id) \/ Answered("reopen", id)
                    \/ Answered("execute", id)) =>
                    /\ response'.code = 409
                    /\ approvalEvents' = approvalEvents]_vars

\* A request has just been refused on an executed incident.
C8_Witness ==
    /\ response.code = 409
    /\ response.id \in DOMAIN incidents
    /\ incidents[response.id].status = "executed"

\* C9: approve on an incident in needs_human_review moves it to approved
\* with finalPriority the caller's, or suggestedPriority when none is sent.
C9_ApproveSetsFinalPriority ==
    [][\A id \in DOMAIN incidents, c \in Callers, p \in FinalPriorityInputs :
          (/\ incidents[id].status = "needs_human_review"
           /\ Answered("review", id)
           /\ Review(id, "approve", c.actor, c.reason, p)) =>
              /\ incidents'[id].status = "approved"
              /\ incidents'[id].finalPriority =
                    IF p = Undefined THEN incidents[id].suggestedPriority ELSE p]_vars

\* An approval with a finalPriority that is not the suggested one has just
\* been accepted.
C9_Witness ==
    /\ response.route = "review"
    /\ response.code = 200
    /\ incidents[response.id].status = "approved"
    /\ incidents[response.id].finalPriority \in
          Priority \ {incidents[response.id].suggestedPriority}

\* C10: finalPriority is set only by a step that approves the incident,
\* and once set it is never changed.
C10_FinalPriorityWrittenOnce ==
    [][\A id \in DOMAIN incidents :
          /\ incidents[id].finalPriority # Undefined =>
                incidents'[id].finalPriority = incidents[id].finalPriority
          /\ incidents'[id].finalPriority # incidents[id].finalPriority =>
                /\ incidents[id].status = "needs_human_review"
                /\ incidents'[id].status = "approved"]_vars


\* C11: a review succeeds only on an incident in needs_human_review; a
\* review of an approved incident is refused with the invalid transition
\* from approved, and the incident stays approved.
C11_ReviewOnlyFromReview ==
    [][\A id \in DOMAIN incidents :
          Answered("review", id) =>
              /\ response'.code = 200 => incidents[id].status = "needs_human_review"
              /\ incidents[id].status = "approved" =>
                    /\ response'.code = 409
                    /\ response'.error[1] = "Invalid transition"
                    /\ response'.error[2] = "approved"
                    /\ response'.error[3] \in {"approved", "rejected"}
                    /\ incidents'[id].status = "approved"]_vars

\* A second review, a rejection, has just been refused on an approved incident.
C11_Witness ==
    /\ response.route = "review"
    /\ response.code = 409
    /\ response.error = <<"Invalid transition", "approved", "rejected">>
    /\ incidents[response.id].status = "approved"


\* C12: a reopen succeeds if and only if the incident is rejected, and then
\* the incident is in needs_human_review; from needs_human_review, approved
\* or executed it is refused and the status is unchanged.
C12_ReopenIffRejected ==
    [][\A id \in DOMAIN incidents :
          Answered("reopen", id) =>
              /\ (response'.code = 200) <=> (incidents[id].status = "rejected")
              /\ IF incidents[id].status = "rejected"
                 THEN incidents'[id].status = "needs_human_review"
                 ELSE /\ incidents[id].status \in
                            {"needs_human_review", "approved", "executed"}
                      /\ response'.code = 409
                      /\ incidents'[id].status = incidents[id].status]_vars

\* A rejected incident has just been reopened.
C12_Witness ==
    /\ response.route = "reopen"
    /\ response.code = 200
    /\ incidents[response.id].status = "needs_human_review"
    /\ LastOf(History(response.id)).from = "rejected"

C14_ExecuteIffApproved ==
    /\ [](\A id \in DOMAIN incidents :
             \A k \in DOMAIN History(id), j \in DOMAIN History(id) :
                (k < j /\ History(id)[k].to = "rejected"
                       /\ History(id)[j].to = "executed") =>
                    \E r \in (k + 1)..(j - 1), a \in (k + 1)..(j - 1) :
                       /\ r < a
                       /\ History(id)[r].from = "rejected"
                       /\ History(id)[r].to = "needs_human_review"
                       /\ History(id)[a].from = "needs_human_review"
                       /\ History(id)[a].to = "approved")
    /\ [][\A id \in DOMAIN incidents :
             Answered("execute", id) =>
                 /\ (response'.code = 200) <=> (incidents[id].status = "approved")
                 /\ incidents[id].status = "approved" =>
                       incidents'[id].status = "executed"
                 /\ incidents[id].status \in {"rejected", "needs_human_review"} =>
                       /\ response'.code = 409
                       /\ response'.error =
                             <<"Invalid transition", incidents[id].status, "executed">>
                       /\ incidents'[id].status = incidents[id].status]_vars

\* An execute has just been refused on a rejected incident.
C14_Witness ==
    /\ response.route = "execute"
    /\ response.code = 409
    /\ response.error = <<"Invalid transition", "rejected", "executed">>
    /\ incidents[response.id].status = "rejected"

\* C15: after a reopen that succeeded, the incident's reviewReason and
\* reviewedBy are the reason and the actor of that reopen.
C15_ReopenRecordsReviewer ==
    [][\A id \in DOMAIN incidents, c \in Callers :
          (/\ Answered("reopen", id)
           /\ response'.code = 200
           /\ Reopen(id, c.actor, c.reason)) =>
              /\ incidents'[id].reviewReason = c.reason
              /\ incidents'[id].reviewedBy = c.actor]_vars

\* C16: the log is append-only and the registry only grows: a step leaves
\* the log it found as a prefix of the log it leaves, adds at most one
\* event, and removes no incident.  The events are in the order of their
\* creation (their ids are numbered in that order).
C16_LogAppendOnly ==
    /\ [](\A k \in DOMAIN approvalEvents : approvalEvents[k].id = k)
    /\ [][/\ Len(approvalEvents') \in {Len(approvalEvents), Len(approvalEvents) + 1}
          /\ SubSeq(approvalEvents', 1, Len(approvalEvents)) = approvalEvents
          /\ DOMAIN incidents \subseteq DOMAIN incidents']_vars

\* The log is full, with the events of two incidents in it.
C16_Witness ==
    /\ Len(approvalEvents) = MaxEvents
    /\ Cardinality({approvalEvents[k].incidentId : k \in DOMAIN approvalEvents}) = 2
    /\ Cardinality(DOMAIN incidents) = 2

\* C17: a get, review, reopen or execute that names an id the registry
\* does not hold is answered 404 "Incident not found" and changes nothing:
\* the registry, with every field of every incident, and the log are as
\* they were.
C17_NotFoundNoSideEffects ==
    [][\A id \in Ids \ DOMAIN incidents :
          (/\ response'.id = id
           /\ response'.route \in {"get", "review", "reopen", "execute"}) =>
              /\ response'.code = 404
              /\ response'.error = <<"Incident not found">>
              /\ incidents' = incidents
              /\ approvalEvents' = approvalEvents]_vars

\* A review has just been answered 404 while the registry holds another
\* incident, which has been reviewed.
C17_Witness ==
    /\ response.route = "review"
    /\ response.code = 404
    /\ response.id \notin DOMAIN incidents
    /\ \E id \in DOMAIN incidents : incidents[id].reviewedBy # Undefined

\* The reference scorer, in hundredths: 0.5, plus 0.25 on a keyword match,
\* plus 0.2 on a high hint, minus 0.2 on a low one, clamped to [0, 1]; the
\* priority by the strict thresholds 0.75 and 0.55.
ReferenceScore(match, urgencyHint) ==
    LET raw == 50 + (IF match THEN 25 ELSE 0)
                  + (IF urgencyHint = "high" THEN 20 ELSE 0)
                  - (IF urgencyHint = "low" THEN 20 ELSE 0)
    IN  IF raw < 0 THEN 0 ELSE IF raw > 100 THEN 100 ELSE raw

ReferencePriority(score) ==
    CASE score > 75 -> "P1"
      [] score <= 75 /\ score > 55 -> "P2"
      [] score <= 55 -> "P3"

\* C18: the reply to a scoring request is the reference's result for the
\* request it answers, whatever the keyword match and the urgency hint:
\* confidence is the clamped score and the priority follows the strict
\* thresholds.  The result is a function of the request alone, so the same
\* request always gets the same reply.
C18_ScoreMatchesReference ==
    response.route = "score" =>
        LET match == \E i \in DOMAIN response.body.report :
                        response.body.report[i] \in
                            {"injur", "bleed", "stuck", "flood", "fire", "heat", "cold"}
            score == ReferenceScore(match, response.body.urgencyHint)
        IN  /\ response.body.confidence = score
            /\ response.body.suggestedPriority = ReferencePriority(score)
            /\ response.code = 200

\* A report with a keyword and no hint has been scored exactly 0.75: P2.
C18_Witness ==
    /\ response.route = "score"
    /\ response.body.urgencyHint = Undefined
    /\ \E i \in DOMAIN response.body.report : response.body.report[i] = "stuck"
    /\ response.body.confidence = 75
    /\ response.body.suggestedPriority = "P2"

\* C19: a review refused on an illegal edge replies 409 and leaves the
\* status, updatedAt and the log as they were, but not the fields it wrote
\* before the check: reviewReason and reviewedBy are the refused request's
\* reason and actor, and finalPriority is, for an approve, the request's
\* finalPriority (suggestedPriority when it sent none) and, for a reject,
\* what it was.
C19_RefusedReviewKeepsWrites ==
    [][\A id \in DOMAIN incidents :
          (Answered("review", id) /\ incidents[id].status # "needs_human_review") =>
              \A d \in ApprovalDecision, c \in Callers, p \in FinalPriorityInputs :
                  Review(id, d, c.actor, c.reason, p) =>
                      /\ response'.code = 409
                      /\ incidents'[id].status = incidents[id].status
                      /\ incidents'[id].updatedAt = incidents[id].updatedAt
                      /\ approvalEvents' = approvalEvents
                      /\ incidents'[id].reviewReason = c.reason
                      /\ incidents'[id].reviewedBy = c.actor
                      /\ incidents'[id].finalPriority =
                            IF d = "reject" THEN incidents[id].finalPriority
                            ELSE IF p = Undefined THEN incidents[id].suggestedPriority
                            ELSE p]_vars

\* An approve has just been refused on a rejected incident: the incident
\* is still rejected, as its last event says, yet it carries a finalPriority
\* and the name of a reviewer other than the one who rejected it.
C19_Witness ==
    /\ response.route = "review"
    /\ response.code = 409
    /\ response.error = <<"Invalid transition", "rejected", "approved">>
    /\ incidents[response.id].status = "rejected"
    /\ incidents[response.id].finalPriority = "P2"
    /\ incidents[response.id].reviewedBy # LastOf(History(response.id)).actor

\* C20: every incident that is approved or executed has a finalPriority,
\* one of P1, P2, P3.
C20_ApprovedHasFinalPriority ==
    \A id \in DOMAIN incidents :
        incidents[id].status \in {"approved", "executed"} =>
            incidents[id].finalPriority \in Priority

\* An incident approved without a finalPriority in the request has been
\* executed: its finalPriority is the suggested one.
C20_Witness ==
    \E id \in DOMAIN incidents :
        /\ incidents[id].status = "executed"
        /\ incidents[id].finalPriority = incidents[id].suggestedPriority
====
